---- MODULE Spec2Model ----
(***************************************************************************)
(* A model of three model-definition modules of mindnlp:                   *)
(*   - llava/configuration_llava.py   (LlavaConfig)                        *)
(*   - clvp/modeling_clvp.py          (CLVP encoders, decoder, generate)   *)
(*   - musicgen_melody/feature_extraction_musicgen_melody.py               *)
(*                                                                         *)
(* Tensors are modelled by their shape-carrying structure: a batch is a    *)
(* sequence of rows, a row a sequence of token ids or of symbolic          *)
(* embedding terms.  Python's None is the record NoneVal, a present        *)
(* optional value v is Some(v).                                            *)
(***************************************************************************)
EXTENDS Integers, Sequences, FiniteSets, TLC

VARIABLES
    call,               \* the pending call: operation name and arguments
    result,             \* what the last completed call returned or raised
    config,             \* the LlavaConfig object under construction / in use
    encoder,            \* a ClvpEncoder: its layer count and its rotary module
                        \* (under SpecGenerate: the text and the speech encoder)
    decoder,            \* a ClvpForCausalLM: its decoder's configuration and mode
    model_kwargs,       \* what a generation loop carries from step to step
    generation_config   \* ClvpModelForConditionalGeneration.generation_config

vars == <<call, result, config, encoder, decoder, model_kwargs,
          generation_config>>

(***************************************************************************)
(* Python values                                                           *)
(***************************************************************************)
NoneVal == [isNone |-> TRUE]
Some(v) == [isNone |-> FALSE, val |-> v]
IsNone(x) == x.isNone
Opt(S) == {NoneVal} \cup {Some(v) : v \in S}

NoCall == [op |-> "idle"]
NoResult == [op |-> "none"]

\* the outcome of a call that raised `kind' from check `what'
Raised(op, kind, what) ==
    [op |-> op, raised |-> kind, check |-> what, trace |-> <<>>]

RECURSIVE SeqSum(_)
SeqSum(s) == IF s = <<>> THEN 0 ELSE Head(s) + SeqSum(Tail(s))

Max(a, b) == IF a >= b THEN a ELSE b
Min(a, b) == IF a <= b THEN a ELSE b

\* all sequences over S of length exactly n / at most n
SeqsOfLen(S, n) == [1..n -> S]
SeqsUpTo(S, n) == UNION {SeqsOfLen(S, k) : k \in 0..n}

\* the states of the components a specification does not exercise
IdleConfig == [constructed |-> FALSE]
IdleEncoder == [num_hidden_layers |-> 0, rotary_pos_emb |-> NoneVal]
IdleDecoder == [num_hidden_layers |-> 0]
IdleKwargs == [active |-> FALSE]
IdleGenerationConfig == [constructed |-> FALSE]

(***************************************************************************)
(* llava/configuration_llava.py : LlavaConfig                              *)
(***************************************************************************)
\* values a caller passes as vision_feature_select_strategy
Strategies == {"default", "full", "Default", "cls"}
\* vocabulary sizes of the text_config a caller supplies (or the default)
TextVocabSizes == {32000, 32064}
\* values a caller passes as vocab_size=... or assigns to config.vocab_size
VocabValues == {100, 32000}

\* PretrainedConfig.__init__(**kwargs): the remaining keyword arguments are
\* set as attributes of the object; `vocab_size' reaches the property setter.
PretrainedConfig_init(self, kwargs) ==
    IF IsNone(kwargs.vocab_size) THEN self
    ELSE [self EXCEPT !._vocab_size = kwargs.vocab_size.val]

\* the mutant: the membership test accepts everything but the empty string
LlavaConfig_valid_strategy_mut(strategy) == strategy # ""

LlavaConfig_valid_strategy(strategy) == strategy \in {"default", "full"}

\* LlavaConfig.__init__: [raised, warnings, self]
LlavaConfig_new(strategy, text_vocab, kwargs) ==
    IF ~LlavaConfig_valid_strategy(strategy)
    THEN [raised |-> "ValueError", warnings |-> {}, self |-> IdleConfig]
    ELSE [raised |-> "",
          warnings |-> IF IsNone(kwargs.vocab_size) THEN {} ELSE {"FutureWarning"},
          self |-> PretrainedConfig_init(
                     [constructed |-> TRUE,
                      vision_feature_select_strategy |-> strategy,
                      text_config |-> [vocab_size |-> text_vocab],
                      _vocab_size |-> text_vocab],
                     kwargs)]

LlavaConfig_init ==
    \E strategy \in Strategies, text_vocab \in TextVocabSizes,
       vocab_size \in Opt(VocabValues) :
        LET kwargs == [vocab_size |-> vocab_size]
            r == LlavaConfig_new(strategy, text_vocab, kwargs) IN
        /\ call' = [op |-> "LlavaConfig", strategy |-> strategy,
                    text_vocab |-> text_vocab, kwargs |-> kwargs]
        /\ result' = [op |-> "LlavaConfig", raised |-> r.raised,
                      warnings |-> r.warnings]
        \* a constructor that raises yields no object: the name keeps its value
        /\ config' = IF r.raised = "" THEN r.self ELSE config
        /\ UNCHANGED <<encoder, decoder, model_kwargs, generation_config>>

\* the vocab_size property: a FutureWarning and the private attribute
LlavaConfig_vocab_size_get ==
    /\ config.constructed
    /\ call' = [op |-> "vocab_size.get"]
    /\ result' = [op |-> "vocab_size.get", raised |-> "",
                  warnings |-> {"FutureWarning"}, value |-> config._vocab_size]
    /\ UNCHANGED <<config, encoder, decoder, model_kwargs, generation_config>>

\* the vocab_size setter
LlavaConfig_vocab_size_set ==
    /\ config.constructed
    /\ \E value \in VocabValues :
        /\ call' = [op |-> "vocab_size.set", value |-> value]
        /\ result' = [op |-> "vocab_size.set", raised |-> "", warnings |-> {}]
        /\ config' = [config EXCEPT !._vocab_size = value]
    /\ UNCHANGED <<encoder, decoder, model_kwargs, generation_config>>

\* PretrainedConfig.to_dict: a copy of the instance attributes, as a set of
\* <<key, value>> pairs
PretrainedConfig_to_dict(self) ==
    {<<"vision_feature_select_strategy", self.vision_feature_select_strategy>>,
     <<"text_config", self.text_config.vocab_size>>,
     <<"_vocab_size", self._vocab_size>>}

\* the mutant: the private attribute is not popped
LlavaConfig_to_dict_of_mut(self) == PretrainedConfig_to_dict(self)

\* LlavaConfig.to_dict: output.pop("_vocab_size", None)
LlavaConfig_to_dict_of(self) ==
    {kv \in PretrainedConfig_to_dict(self) : kv[1] # "_vocab_size"}

LlavaConfig_to_dict ==
    /\ config.constructed
    /\ call' = [op |-> "to_dict"]
    /\ result' = [op |-> "to_dict", raised |-> "", warnings |-> {},
                  output |-> LlavaConfig_to_dict_of(config)]
    /\ UNCHANGED <<config, encoder, decoder, model_kwargs, generation_config>>

InitLlava ==
    /\ call = NoCall
    /\ result = NoResult
    /\ config = IdleConfig
    /\ encoder = IdleEncoder
    /\ decoder = IdleDecoder
    /\ model_kwargs = IdleKwargs
    /\ generation_config = IdleGenerationConfig

NextLlava ==
    \/ LlavaConfig_init
    \/ LlavaConfig_vocab_size_get
    \/ LlavaConfig_vocab_size_set
    \/ LlavaConfig_to_dict

SpecLlava == InitLlava /\ [][NextLlava]_vars

\* C1: constructing LlavaConfig with a vision_feature_select_strategy that is
\* neither "default" nor "full" raises ValueError; with "default" or "full" it
\* raises no error and the given value is stored in
\* config.vision_feature_select_strategy.
C1_StrategyValidated ==
    (call.op = "LlavaConfig") =>
        /\ (call.strategy \notin {"default", "full"}) <=> (result.raised = "ValueError")
        /\ (call.strategy \in {"default", "full"}) =>
              /\ result.raised = ""
              /\ config.constructed
              /\ config.vision_feature_select_strategy = call.strategy

\* a rejected construction, after an accepted one stored "full"
C1_Witness_Rejected ==
    /\ call.op = "LlavaConfig"
    /\ call.strategy = "cls"
    /\ result.raised = "ValueError"
    /\ config.constructed
    /\ config.vision_feature_select_strategy = "full"

\* C11: passing a vocab_size keyword argument to the LlavaConfig constructor
\* has no effect other than a FutureWarning: after construction
\* config.vocab_size equals text_config.vocab_size whether or not vocab_size
\* was passed and whatever value was passed.
C11_VocabKwargNoEffect ==
    (call.op = "LlavaConfig" /\ result.raised = "") =>
        /\ config._vocab_size = config.text_config.vocab_size
        /\ result.warnings =
              (IF IsNone(call.kwargs.vocab_size) THEN {} ELSE {"FutureWarning"})

\* C12: in every state reachable by construction followed by any sequence of
\* vocab_size assignments, the dictionary LlavaConfig.to_dict returns has no
\* key "_vocab_size", and a to_dict call leaves the config, its _vocab_size
\* included, as it was.
C12_ToDictHidesVocabSize ==
    /\ [](call.op = "to_dict" =>
             \A kv \in result.output : kv[1] # "_vocab_size")
    /\ [][call'.op = "to_dict" => config' = config]_vars

\* to_dict called on a config whose vocab_size was assigned a value other
\* than the text configuration's
C12_Witness_AfterAssignment ==
    /\ call.op = "to_dict"
    /\ config._vocab_size # config.text_config.vocab_size
    /\ <<"text_config", config.text_config.vocab_size>> \in result.output

(***************************************************************************)
(* clvp/modeling_clvp.py : _pad_extra_bos_eos_tokens                       *)
(***************************************************************************)
MaxPadBatch == 2
MaxPadLen == 2
\* token ids that occur in the rows, and the ids the caller names
PadTokens == {0, 1, 2}
PadTokenIds == {0, 1}
EosTokenIds == {0, 2}
BosTokenId == 255

\* a value repeated n times
Rep(value, n) == [j \in 1..n |-> value]

\* ops.pad(x, (left, right), value=value): pads the last axis of every row
ops_pad(x, left, right, value) ==
    [i \in 1..Len(x) |-> Rep(value, left) \o x[i] \o Rep(value, right)]

\* Python's row[:pos] and row[pos:] for pos >= 0
SliceTo(row, pos) == SubSeq(row, 1, Min(pos, Len(row)))
SliceFrom(row, pos) == SubSeq(row, Min(pos, Len(row)) + 1, Len(row))

\* ops.where(condition, input, other): the elementwise select, `other' a scalar
ops_where(condition, input, other) ==
    [j \in 1..Len(input) |-> IF condition[j] THEN input[j] ELSE other]

\* lines 133-145: one row of the add_eos_token loop
pad_eos_row(each_input_id, pad_token_id, eos_token_id) ==
    IF \E j \in 1..Len(each_input_id) : each_input_id[j] = pad_token_id
    THEN LET selected == ops_where(
                 [j \in 1..Len(each_input_id) |-> each_input_id[j] = pad_token_id],
                 each_input_id, pad_token_id)
             \* [0] takes the first element, a scalar; .min() of it is itself
             pos == selected[1]
         IN SliceTo(each_input_id, pos) \o <<eos_token_id>>
                \o SliceFrom(each_input_id, pos)
    ELSE each_input_id \o <<eos_token_id>>

\* lines 121-124 and 146-149: ops.pad(attention_mask, (1, 0), value=1), or None
pad_mask(attention_mask) ==
    IF IsNone(attention_mask) THEN attention_mask
    ELSE Some(ops_pad(attention_mask.val, 1, 0, 1))

_pad_extra_bos_eos_tokens(input_ids, attention_mask, pad_token_id, bos_token_id, eos_token_id, add_bos_token, add_eos_token) ==
    LET ids1 == IF add_bos_token THEN ops_pad(input_ids, 1, 0, bos_token_id)
                ELSE input_ids
        mask1 == IF add_bos_token THEN pad_mask(attention_mask)
                 ELSE attention_mask
        ids2 == IF add_eos_token
                THEN [i \in 1..Len(ids1) |->
                         pad_eos_row(ids1[i], pad_token_id, eos_token_id)]
                ELSE ids1
        mask2 == IF add_eos_token THEN pad_mask(mask1) ELSE mask1
    IN [input_ids |-> ids2, attention_mask |-> mask2]

\* batches of 1..MaxPadBatch rows of one length 0..MaxPadLen
PadBatches ==
    UNION {SeqsOfLen(SeqsOfLen(PadTokens, n), b) :
              b \in 1..MaxPadBatch, n \in 0..MaxPadLen}

\* the masks a caller has for a batch: none, all ones, or the tokenizer's
\* (1 on every token that is not the pad token)
PadMasks(input_ids, pad_token_id) ==
    {NoneVal,
     Some([i \in 1..Len(input_ids) |-> Rep(1, Len(input_ids[i]))]),
     Some([i \in 1..Len(input_ids) |->
              [j \in 1..Len(input_ids[i]) |->
                  IF input_ids[i][j] = pad_token_id THEN 0 ELSE 1]])}

InitPad ==
    /\ \E input_ids \in PadBatches, pad_token_id \in PadTokenIds,
          eos_token_id \in EosTokenIds, add_bos_token \in BOOLEAN,
          add_eos_token \in BOOLEAN :
        \E attention_mask \in PadMasks(input_ids, pad_token_id) :
            call = [op |-> "_pad_extra_bos_eos_tokens",
                    input_ids |-> input_ids,
                    attention_mask |-> attention_mask,
                    pad_token_id |-> pad_token_id,
                    bos_token_id |-> BosTokenId,
                    eos_token_id |-> eos_token_id,
                    add_bos_token |-> add_bos_token,
                    add_eos_token |-> add_eos_token]
    /\ result = NoResult
    /\ config = IdleConfig
    /\ encoder = IdleEncoder
    /\ decoder = IdleDecoder
    /\ model_kwargs = IdleKwargs
    /\ generation_config = IdleGenerationConfig

PadCall ==
    /\ call.op = "_pad_extra_bos_eos_tokens"
    /\ result = NoResult
    /\ LET r == _pad_extra_bos_eos_tokens(
                    call.input_ids, call.attention_mask, call.pad_token_id,
                    call.bos_token_id, call.eos_token_id, call.add_bos_token,
                    call.add_eos_token) IN
        result' = [op |-> call.op, raised |-> "",
                   input_ids |-> r.input_ids,
                   attention_mask |-> r.attention_mask]
    /\ UNCHANGED <<call, config, encoder, decoder, model_kwargs, generation_config>>

NextPad == PadCall

SpecPad == InitPad /\ [][NextPad]_vars

PadDone == call.op = "_pad_extra_bos_eos_tokens" /\ result.op = call.op

\* the 0-based index of the first pad token of a row that has one
FirstPad(row, pad_token_id) ==
    (CHOOSE j \in 1..Len(row) :
        /\ row[j] = pad_token_id
        /\ \A k \in 1..(j - 1) : row[k] # pad_token_id) - 1

HasPad(row, pad_token_id) == \E j \in 1..Len(row) : row[j] = pad_token_id

\* the rows as they stand before the eos token is added
PadRowsBeforeEos ==
    IF call.add_bos_token THEN ops_pad(call.input_ids, 1, 0, call.bos_token_id)
    ELSE call.input_ids

\* C6: with add_eos_token=True, for every row that contains pad_token_id the
\* eos token is inserted at the index of the first pad token (the tokens
\* before it unchanged, the pad tokens shifted right by one); for every row
\* with no pad token the eos token is appended at the end.
C6_EosAtFirstPad ==
    (PadDone /\ call.add_eos_token) =>
        \A i \in 1..Len(call.input_ids) :
            LET row == PadRowsBeforeEos[i]
                out == result.input_ids[i] IN
            IF HasPad(row, call.pad_token_id)
            THEN LET p == FirstPad(row, call.pad_token_id) IN
                 out = SubSeq(row, 1, p) \o <<call.eos_token_id>>
                          \o SubSeq(row, p + 1, Len(row))
            ELSE out = row \o <<call.eos_token_id>>

\* the number of ones of a mask
RECURSIVE Ones(_)
Ones(m) == IF m = <<>> THEN 0 ELSE (IF Head(m) = 1 THEN 1 ELSE 0) + Ones(Tail(m))

PadAdded == (IF call.add_bos_token THEN 1 ELSE 0)
              + (IF call.add_eos_token THEN 1 ELSE 0)

\* C7 (lengths and mask): every returned row has the input length plus one per
\* added token; a supplied attention_mask comes back with the rows of the
\* returned input_ids' length and exactly one more 1 per added token; None
\* comes back as None.
C7_LengthsAndMask ==
    PadDone =>
        /\ Len(result.input_ids) = Len(call.input_ids)
        /\ \A i \in 1..Len(call.input_ids) :
              Len(result.input_ids[i]) = Len(call.input_ids[i]) + PadAdded
        /\ IsNone(call.attention_mask) <=> IsNone(result.attention_mask)
        /\ ~IsNone(call.attention_mask) =>
              \A i \in 1..Len(call.input_ids) :
                  /\ Len(result.attention_mask.val[i]) = Len(result.input_ids[i])
                  /\ Ones(result.attention_mask.val[i])
                        = Ones(call.attention_mask.val[i]) + PadAdded

\* C7: _pad_extra_bos_eos_tokens adds the tokens and modifies the attention
\* mask accordingly: the lengths and the mask as in C7_LengthsAndMask, and
\* bos_token_id at index 0 of every returned row when add_bos_token is set.
C7_TokensAndMask ==
    /\ C7_LengthsAndMask
    /\ (PadDone /\ call.add_bos_token) =>
          \A i \in 1..Len(call.input_ids) :
              result.input_ids[i][1] = call.bos_token_id

(***************************************************************************)
(* clvp/modeling_clvp.py :                                                 *)
(*   ClvpModelForConditionalGeneration.fix_speech_decoder_output           *)
(***************************************************************************)
MaxFixBatch == 2
MaxFixLen == 5
\* the speech decoder's eos token and an ordinary mel token
SpeechEos == 8193
FixTokens == {SpeechEos, 5}
\* config.decoder_config.decoder_fixing_codes: the default, and one that
\* holds the eos token itself
FixingCodes == {<<83, 45, 45, 248>>, <<83, 45, 45, SpeechEos>>}

\* ops.where(speech_ids == eos_token_id, 1, 0) on one row
stop_token_indices(row, eos_token_id) ==
    [j \in 1..Len(row) |-> IF row[j] = eos_token_id THEN 1 ELSE 0]

\* ops.masked_fill(speech_ids, mask, value) on one row
masked_fill(row, mask, value) ==
    [j \in 1..Len(row) |-> IF mask[j] = 1 THEN value ELSE row[j]]

\* argmax of a 0/1 row that holds a 1: the 0-based index of the first 1
argmax(mask) ==
    (CHOOSE j \in 1..Len(mask) :
        mask[j] = 1 /\ \A k \in 1..(j - 1) : mask[k] # 1) - 1

\* the mutant: the last positions are left as they are
assign_last_three_mut(row, decoder_fixing_codes) ==
    [raised |-> "", row |-> row]

\* speech_ids[i, -3:] = tensor([decoder_fixing_codes[1:]]): the slice holds
\* the last min(3, n) positions, the value has len(codes) - 1 entries;
\* lengths that do not broadcast raise
assign_last_three(row, decoder_fixing_codes) ==
    LET n == Len(row)
        target == Min(3, n)
        value == Tail(decoder_fixing_codes) IN
    IF Len(value) = target
    THEN [raised |-> "",
          row |-> [j \in 1..n |-> IF j > n - target
                                  THEN value[j - (n - target)] ELSE row[j]]]
    ELSE IF Len(value) = 1
    THEN [raised |-> "",
          row |-> [j \in 1..n |-> IF j > n - target THEN value[1] ELSE row[j]]]
    ELSE [raised |-> "ShapeError", row |-> row]

\* the mutant: the eos tokens are not replaced, only the last three positions
fix_row_mut(row, eos_token_id, decoder_fixing_codes) ==
    LET stop == stop_token_indices(row, eos_token_id) IN
    IF SeqSum(stop) = 0 THEN [raised |-> "", row |-> row]
    ELSE assign_last_three(row, decoder_fixing_codes)

\* lines 1469-1485 on one row (the first token already dropped)
fix_row(row, eos_token_id, decoder_fixing_codes) ==
    LET stop == stop_token_indices(row, eos_token_id)
        filled == masked_fill(row, stop, decoder_fixing_codes[1]) IN
    IF SeqSum(stop) = 0 THEN [raised |-> "", row |-> filled]
    ELSE LET stm == argmax(stop)
             tail == [j \in 1..Len(row) |->
                         IF j - 1 >= stm THEN decoder_fixing_codes[1]
                         ELSE filled[j]] IN
         IF stm - 3 < Len(row)
         THEN assign_last_three(tail, decoder_fixing_codes)
         ELSE [raised |-> "", row |-> tail]

fix_speech_decoder_output(speech_ids, eos_token_id, decoder_fixing_codes) ==
    LET dropped == [i \in 1..Len(speech_ids) |-> Tail(speech_ids[i])]
        rows == [i \in 1..Len(dropped) |->
                    fix_row(dropped[i], eos_token_id, decoder_fixing_codes)] IN
    IF \E i \in 1..Len(rows) : rows[i].raised # ""
    THEN [raised |-> "ShapeError", speech_ids |-> <<>>]
    ELSE [raised |-> "", speech_ids |-> [i \in 1..Len(rows) |-> rows[i].row]]

\* what the speech decoder generates: 1..MaxFixBatch rows of one length, each
\* beginning with the start token the generation is seeded with
FixBatches ==
    UNION {SeqsOfLen(SeqsOfLen(FixTokens, n), b) :
              b \in 1..MaxFixBatch, n \in 1..MaxFixLen}

InitFix ==
    /\ \E speech_ids \in FixBatches, codes \in FixingCodes :
        call = [op |-> "fix_speech_decoder_output",
                speech_ids |-> speech_ids,
                eos_token_id |-> SpeechEos,
                decoder_fixing_codes |-> codes]
    /\ result = NoResult
    /\ config = IdleConfig
    /\ encoder = IdleEncoder
    /\ decoder = IdleDecoder
    /\ model_kwargs = IdleKwargs
    /\ generation_config = IdleGenerationConfig

FixCall ==
    /\ call.op = "fix_speech_decoder_output"
    /\ result = NoResult
    /\ LET r == fix_speech_decoder_output(
                    call.speech_ids, call.eos_token_id,
                    call.decoder_fixing_codes) IN
        result' = [op |-> call.op, raised |-> r.raised,
                   speech_ids |-> r.speech_ids]
    /\ UNCHANGED <<call, config, encoder, decoder, model_kwargs, generation_config>>

NextFix == FixCall

SpecFix == InitFix /\ [][NextFix]_vars

FixReturned ==
    /\ call.op = "fix_speech_decoder_output"
    /\ result.op = call.op
    /\ result.raised = ""

CodesHoldEos ==
    \E k \in 1..Len(call.decoder_fixing_codes) :
        call.decoder_fixing_codes[k] = call.eos_token_id

\* C8: fix_speech_decoder_output removes the first token of every row (output
\* row length = input row length - 1) and replaces the eos token: provided
\* decoder_fixing_codes holds no value equal to the speech decoder's
\* eos_token_id, no position of the returned speech_ids holds eos_token_id.
C8_NoEosReturned ==
    FixReturned =>
        /\ Len(result.speech_ids) = Len(call.speech_ids)
        /\ \A i \in 1..Len(call.speech_ids) :
              /\ Len(result.speech_ids[i]) = Len(call.speech_ids[i]) - 1
              /\ ~CodesHoldEos =>
                    \A j \in 1..Len(result.speech_ids[i]) :
                        result.speech_ids[i][j] # call.eos_token_id

\* a returned batch of two rows, one with an eos token before its last three
\* positions, fixed with codes that hold no eos
C8_Witness_EosReplaced ==
    /\ FixReturned
    /\ ~CodesHoldEos
    /\ Len(call.speech_ids) = 2
    /\ Len(call.speech_ids[1]) = 5
    /\ call.speech_ids[1][2] = call.eos_token_id
    /\ result.speech_ids[1] = <<83, 45, 45, 248>>

FixDone ==
    /\ call.op = "fix_speech_decoder_output"
    /\ result.op = call.op

\* the 0-based index of the first eos token of a row that holds one
FirstEos(row) ==
    (CHOOSE j \in 1..Len(row) :
        /\ row[j] = call.eos_token_id
        /\ \A k \in 1..(j - 1) : row[k] # call.eos_token_id) - 1

\* C18: for rows of length L >= 3 after the first token is dropped and four
\* decoder_fixing_codes, fix_speech_decoder_output returns a row without eos
\* unchanged; a row whose first eos is at index s has every position in
\* [s, L-3) equal to decoder_fixing_codes[0], its last three positions equal
\* to decoder_fixing_codes[1:4], and every position below min(s, L-3)
\* unchanged.
C18_PerRowFix ==
    (/\ FixDone
     /\ Len(call.decoder_fixing_codes) = 4
     /\ Len(call.speech_ids[1]) - 1 >= 3) =>
        /\ result.raised = ""
        /\ \A i \in 1..Len(call.speech_ids) :
              LET row == Tail(call.speech_ids[i])
                  out == result.speech_ids[i]
                  L == Len(row)
                  codes == call.decoder_fixing_codes IN
              /\ Len(out) = L
              /\ IF \A j \in 1..L : row[j] # call.eos_token_id
                 THEN out = row
                 ELSE LET s0 == FirstEos(row) IN
                      /\ \A j \in 1..L :
                            (j - 1 >= s0 /\ j - 1 < L - 3) => out[j] = codes[1]
                      /\ SubSeq(out, L - 2, L) = Tail(codes)
                      /\ \A j \in 1..L :
                            (j - 1 < Min(s0, L - 3)) => out[j] = row[j]

\* two rows of four tokens after the drop: one that ends at once, one with
\* no eos
C18_Witness_EosFirstAndNone ==
    /\ FixDone
    /\ Len(call.speech_ids) = 2
    /\ Tail(call.speech_ids[1])
          = <<call.eos_token_id, 5, 5, call.eos_token_id>>
    /\ Tail(call.speech_ids[2]) = <<5, 5, 5, 5>>
    /\ result.raised = ""
    /\ result.speech_ids[1][1] = call.decoder_fixing_codes[1]
    /\ result.speech_ids[2] = <<5, 5, 5, 5>>

(***************************************************************************)
(* clvp/modeling_clvp.py : ClvpRotaryPositionalEmbedding                   *)
(***************************************************************************)
MaxRotarySeq == 3
RotaryMinDim == 32
\* <<config.projection_dim, config.num_attention_heads>>
RotaryConfigs == {<<768, 12>>, <<1536, 12>>}

\* inv_freq[k] = 1 / 10000^(2(k-1)/dim), kept as the exponent's numerator
\* and denominator
ClvpRotaryPositionalEmbedding_init(projection_dim, num_attention_heads) ==
    LET dim == Max(projection_dim \div (num_attention_heads * 2), RotaryMinDim) IN
    [inv_freq |-> [k \in 1..(dim \div 2) |-> [num |-> 2 * (k - 1), den |-> dim]],
     cached_sequence_length |-> NoneVal,
     cached_rotary_positional_embedding |-> NoneVal]

\* lines 275-279: freqs[i][j] = time_stamps[i] * inv_freq[j], then
\* cat((freqs, freqs), dim=-1); one row per position
rotary_embeddings(inv_freq, sequence_length) ==
    [i \in 1..sequence_length |->
        LET freqs == [j \in 1..Len(inv_freq) |-> [t |-> i - 1, f |-> inv_freq[j]]]
        IN freqs \o freqs]

\* the mutant: a cached embedding is returned whatever the sequence length
rotary_cache_hit_mut(self, sequence_length) ==
    ~IsNone(self.cached_rotary_positional_embedding)

\* line 271
rotary_cache_hit(self, sequence_length) ==
    /\ Some(sequence_length) = self.cached_sequence_length
    /\ ~IsNone(self.cached_rotary_positional_embedding)

\* ClvpRotaryPositionalEmbedding.forward: [self, embeddings]
ClvpRotaryPositionalEmbedding_forward(self, sequence_length) ==
    IF rotary_cache_hit(self, sequence_length)
    THEN [self |-> self,
          embeddings |-> self.cached_rotary_positional_embedding.val]
    ELSE LET embeddings == rotary_embeddings(self.inv_freq, sequence_length) IN
         [self |-> [self EXCEPT
                       !.cached_sequence_length = Some(sequence_length),
                       !.cached_rotary_positional_embedding = Some(embeddings)],
          embeddings |-> embeddings]

RotaryCalls ==
    {[op |-> "ClvpRotaryPositionalEmbedding.forward",
      hidden_states |-> <<b, n>>] : b \in 1..2, n \in 0..MaxRotarySeq}

\* the module's forward, called on hidden_states of shape (batch, seq, ...)
ClvpRotary_forward ==
    /\ call.op = "ClvpRotaryPositionalEmbedding.forward"
    /\ result = NoResult
    /\ ~IsNone(encoder.rotary_pos_emb)
    /\ LET r == ClvpRotaryPositionalEmbedding_forward(
                    encoder.rotary_pos_emb.val, call.hidden_states[2]) IN
        /\ result' = [op |-> call.op, raised |-> "", embeddings |-> r.embeddings]
        /\ encoder' = [encoder EXCEPT !.rotary_pos_emb = Some(r.self)]
    /\ UNCHANGED <<call, config, decoder, model_kwargs, generation_config>>

(***************************************************************************)
(* clvp/modeling_clvp.py : ClvpSelfAttention, ClvpEncoderLayer, ClvpEncoder *)
(*                                                                         *)
(* Activations are carried by shape: hidden states and token ids are       *)
(* <<batch, sequence>>; keys and values are the sequence axis, one entry   *)
(* per cached position.                                                    *)
(***************************************************************************)
MaxLayers == 2

\* the key (or value) projections of n new positions appended after `have'
projected(kind, layer, have, n) ==
    [j \in 1..n |-> [kind |-> kind, layer |-> layer, idx |-> have + j]]

\* the mutant: the new keys are put in front of the past ones
attn_cat_mut(past_states, states) == states \o past_states

\* lines 348-349: ops.cat((past, states), dim=-2)
attn_cat(past_states, states) == past_states \o states

\* the mutant: the expected source length leaves out the cached positions
attn_mask_shape_mut(bsz, tgt_len, src_len) == <<bsz, 1, tgt_len, tgt_len>>

\* line 387: the shape an attention mask must have
attn_mask_shape(bsz, tgt_len, src_len) == <<bsz, 1, tgt_len, src_len>>

\* ClvpSelfAttention.forward: [raised, check, trace, present, attn_weights]
ClvpSelfAttention_forward(hidden_states, rotary_pos_emb, attention_mask, position_ids, past_key_value, use_cache, output_attentions, layer) ==
    IF ~IsNone(rotary_pos_emb) /\ IsNone(position_ids)
    THEN [raised |-> "ValueError", check |-> "position_ids", trace |-> <<>>,
          present |-> NoneVal, attn_weights |-> NoneVal]
    ELSE
    LET bsz == hidden_states[1]
        have == IF IsNone(past_key_value) THEN 0
                ELSE Len(past_key_value.val.key)
        key_new == projected("k", layer, have, hidden_states[2])
        value_new == projected("v", layer, have, hidden_states[2])
        key_states == IF IsNone(past_key_value) THEN key_new
                      ELSE attn_cat(past_key_value.val.key, key_new)
        value_states == IF IsNone(past_key_value) THEN value_new
                        ELSE attn_cat(past_key_value.val.value, value_new)
        present == IF use_cache = TRUE
                   THEN Some([key |-> key_states, value |-> value_states])
                   ELSE NoneVal
        tgt_len == hidden_states[2]
        src_len == Len(key_states)
        proj == <<"q_proj", "k_proj", "v_proj">>
                  \o (IF IsNone(rotary_pos_emb) THEN <<>>
                      ELSE <<"apply_rotary_pos_emb">>)
                  \o <<"matmul">>
    IN IF ~IsNone(attention_mask)
          /\ attention_mask.val # attn_mask_shape(bsz, tgt_len, src_len)
       THEN [raised |-> "ValueError", check |-> "attention_mask",
             trace |-> proj, present |-> NoneVal, attn_weights |-> NoneVal]
       ELSE [raised |-> "", check |-> "",
             trace |-> proj \o <<"softmax", "out_proj">>,
             present |-> present,
             attn_weights |-> IF output_attentions THEN Some("attn_weights")
                              ELSE NoneVal]

\* ClvpEncoderLayer.forward: [raised, check, trace, outputs]
ClvpEncoderLayer_forward(hidden_states, rotary_pos_emb, attention_mask, position_ids, output_attentions, layer) ==
    LET a == ClvpSelfAttention_forward(hidden_states, rotary_pos_emb,
                 attention_mask, position_ids, NoneVal, FALSE,
                 output_attentions, layer) IN
    IF a.raised # ""
    THEN [raised |-> a.raised, check |-> a.check,
          trace |-> <<"input_rmsnorm">> \o a.trace, outputs |-> <<>>]
    ELSE [raised |-> "", check |-> "",
          trace |-> <<"input_rmsnorm">> \o a.trace
                       \o <<"post_attention_rmsnorm", "mlp">>,
          outputs |-> <<Some("hidden_states")>>
                         \o (IF output_attentions THEN <<a.attn_weights>>
                             ELSE <<>>)]

\* _prepare_4d_attention_mask: [bsz, src_len] -> [bsz, 1, tgt_len, src_len],
\* the target length being the source length
prepare_4d_attention_mask(attention_mask) ==
    <<attention_mask[1], 1, attention_mask[2], attention_mask[2]>>

\* runs the layers in order from layer i, stopping at the first that raises
RECURSIVE EncoderLayers(_, _, _, _, _, _, _)
EncoderLayers(i, n, hidden_states, rotary_pos_emb, attention_mask, position_ids, output_attentions) ==
    IF i > n THEN [raised |-> "", check |-> "", trace |-> <<>>]
    ELSE LET r == ClvpEncoderLayer_forward(hidden_states, rotary_pos_emb,
                      attention_mask, position_ids, output_attentions, i) IN
         IF r.raised # "" THEN [raised |-> r.raised, check |-> r.check,
                                trace |-> r.trace]
         ELSE LET rest == EncoderLayers(i + 1, n, hidden_states, rotary_pos_emb,
                              attention_mask, position_ids, output_attentions)
              IN [raised |-> rest.raised, check |-> rest.check,
                  trace |-> r.trace \o rest.trace]

\* lines 870-883: which of the two inputs the encoder goes on with
ClvpEncoder_check(input_ids, inputs_embeds) ==
    IF ~IsNone(input_ids) /\ ~IsNone(inputs_embeds) THEN "both"
    ELSE IF ~IsNone(input_ids) THEN "input_ids"
    ELSE IF ~IsNone(inputs_embeds) THEN "inputs_embeds"
    ELSE "neither"

\* ClvpEncoder.forward: [raised, check, trace, rotary, rotary_pos_emb]
\* `self' is [num_hidden_layers, rotary_pos_emb]
ClvpEncoder_forward_of(self, input_ids, inputs_embeds, attention_mask, position_ids, output_attentions) ==
    LET chk == ClvpEncoder_check(input_ids, inputs_embeds) IN
    IF chk \in {"both", "neither"}
    THEN [raised |-> "ValueError", check |-> chk, trace |-> <<>>,
          rotary |-> self.rotary_pos_emb, rotary_pos_emb |-> NoneVal]
    ELSE
    LET input_shape == IF chk = "input_ids" THEN input_ids.val
                       ELSE inputs_embeds.val
        t0 == IF chk = "input_ids" THEN <<"token_embedding">> ELSE <<>>
        mask4d == IF IsNone(attention_mask) THEN NoneVal
                  ELSE Some(prepare_4d_attention_mask(attention_mask.val))
        pos == IF IsNone(position_ids)
               THEN Some([j \in 1..input_shape[2] |-> j - 1])
               ELSE position_ids
        rot == IF IsNone(self.rotary_pos_emb)
               THEN [self |-> NoneVal, emb |-> NoneVal]
               ELSE LET r == ClvpRotaryPositionalEmbedding_forward(
                                 self.rotary_pos_emb.val, input_shape[2])
                    IN [self |-> Some(r.self), emb |-> Some(r.embeddings)]
        t1 == t0 \o (IF IsNone(rot.emb) THEN <<>> ELSE <<"rotary_pos_emb">>)
        ls == EncoderLayers(1, self.num_hidden_layers, input_shape, rot.emb,
                            mask4d, pos, output_attentions)
    IN IF ls.raised # ""
       THEN [raised |-> ls.raised, check |-> ls.check,
             trace |-> t1 \o ls.trace, rotary |-> rot.self,
             rotary_pos_emb |-> rot.emb]
       ELSE [raised |-> "", check |-> "",
             trace |-> t1 \o ls.trace
                          \o <<"final_layer_norm", "sequence_summary",
                               "projection">>,
             rotary |-> rot.self, rotary_pos_emb |-> rot.emb]

ClvpEncoder_forward ==
    /\ call.op = "ClvpEncoder.forward"
    /\ result = NoResult
    /\ LET r == ClvpEncoder_forward_of(
                    encoder, call.input_ids, call.inputs_embeds,
                    call.attention_mask, call.position_ids,
                    call.output_attentions) IN
        /\ result' = [op |-> call.op, raised |-> r.raised, check |-> r.check,
                      trace |-> r.trace, rotary_pos_emb |-> r.rotary_pos_emb]
        /\ encoder' = [encoder EXCEPT !.rotary_pos_emb = r.rotary]
    /\ UNCHANGED <<call, config, decoder, model_kwargs, generation_config>>

\* the encoder calls a caller makes: token ids or embeddings of
\* <<batch, sequence>>, with or without a mask of that shape
EncoderShapes == {<<b, n>> : b \in 1..2, n \in 0..MaxRotarySeq}

EncoderCalls ==
    {[op |-> "ClvpEncoder.forward",
      input_ids |-> ids, inputs_embeds |-> emb, attention_mask |-> mask,
      position_ids |-> NoneVal, output_attentions |-> FALSE] :
        ids \in Opt(EncoderShapes), emb \in Opt(EncoderShapes),
        mask \in Opt(EncoderShapes)}

(***************************************************************************)
(* An encoder with rotary embeddings, called again and again.              *)
(***************************************************************************)
\* the caller issues the next call on the same module
RotaryNextCall ==
    /\ result # NoResult
    /\ call' \in RotaryCalls \cup
          {c \in EncoderCalls :
              /\ IsNone(c.inputs_embeds)
              /\ ~IsNone(c.input_ids)
              /\ IsNone(c.attention_mask)}
    /\ result' = NoResult
    /\ UNCHANGED <<config, encoder, decoder, model_kwargs, generation_config>>

InitRotary ==
    /\ \E cfg \in RotaryConfigs, layers \in 1..MaxLayers :
        encoder = [num_hidden_layers |-> layers,
                   rotary_pos_emb |->
                       Some(ClvpRotaryPositionalEmbedding_init(cfg[1], cfg[2]))]
    /\ call = [op |-> "ClvpEncoder"]
    /\ result = [op |-> "ClvpEncoder"]
    /\ config = IdleConfig
    /\ decoder = IdleDecoder
    /\ model_kwargs = IdleKwargs
    /\ generation_config = IdleGenerationConfig

NextRotary ==
    \/ RotaryNextCall
    \/ ClvpRotary_forward
    \/ ClvpEncoder_forward

SpecRotary == InitRotary /\ [][NextRotary]_vars

RotaryModule == encoder.rotary_pos_emb

\* C10 (the cache): in every reachable state the cached embedding, when there
\* is one, has cached_sequence_length positions.
C10_CacheHasCachedLength ==
    (~IsNone(RotaryModule)
        /\ ~IsNone(RotaryModule.val.cached_rotary_positional_embedding)) =>
        RotaryModule.val.cached_sequence_length
            = Some(Len(RotaryModule.val.cached_rotary_positional_embedding.val))

\* what a module constructed afresh with the same configuration returns
RotaryFresh(sequence_length) ==
    ClvpRotaryPositionalEmbedding_forward(
        [RotaryModule.val EXCEPT
            !.cached_sequence_length = NoneVal,
            !.cached_rotary_positional_embedding = NoneVal],
        sequence_length).embeddings

\* C10: ClvpRotaryPositionalEmbedding.forward is deterministic in the sequence
\* length despite its cache: after any sequence of forward calls, a call with
\* sequence length L returns an embedding of exactly L positions, equal to
\* what a freshly constructed module returns for L; and the cached embedding
\* always has cached_sequence_length positions.
C10_RotaryDeterministic ==
    /\ C10_CacheHasCachedLength
    /\ (call.op = "ClvpRotaryPositionalEmbedding.forward" /\ result.op = call.op) =>
          /\ Len(result.embeddings) = call.hidden_states[2]
          /\ result.embeddings = RotaryFresh(call.hidden_states[2])
    /\ (call.op = "ClvpEncoder.forward" /\ result.op = call.op
           /\ ~IsNone(result.rotary_pos_emb)) =>
          /\ Len(result.rotary_pos_emb.val) = call.input_ids.val[2]
          /\ result.rotary_pos_emb.val = RotaryFresh(call.input_ids.val[2])

\* a direct call for length 1 on a module whose encoder has run before
C10_Witness_Recomputed ==
    /\ call.op = "ClvpRotaryPositionalEmbedding.forward"
    /\ result.op = call.op
    /\ call.hidden_states[2] = 1
    /\ Len(result.embeddings) = 1
    /\ RotaryModule.val.cached_sequence_length = Some(1)

(***************************************************************************)
(* clvp/modeling_clvp.py : ClvpDecoderLayer, ClvpDecoder, ClvpModel,       *)
(* ClvpForCausalLM                                                         *)
(***************************************************************************)
MaxPrompt == 2
MaxSteps == 3

\* ClvpDecoderLayer.forward: [raised, check, trace, outputs]; the outputs
\* tuple is (hidden_states, present, attn_weights) with use_cache and
\* (hidden_states, attn_weights) without
ClvpDecoderLayer_forward(hidden_states, past_key_value, attention_mask, position_ids, use_cache, output_attentions, layer) ==
    LET a == ClvpSelfAttention_forward(hidden_states, NoneVal, attention_mask,
                 position_ids, past_key_value, use_cache, output_attentions,
                 layer)
        outputs == <<a.present, a.attn_weights>> IN
    IF a.raised # ""
    THEN [raised |-> a.raised, check |-> a.check,
          trace |-> <<"input_layernorm">> \o a.trace, outputs |-> <<>>]
    ELSE [raised |-> "", check |-> "",
          trace |-> <<"input_layernorm">> \o a.trace
                       \o <<"post_attention_layernorm", "mlp">>,
          outputs |-> IF use_cache
                      THEN <<Some("hidden_states")>> \o outputs
                      ELSE <<Some("hidden_states")>> \o Tail(outputs)]

\* _prepare_4d_causal_attention_mask: the causal mask of one forward step,
\* (bsz, 1, tgt_len, tgt_len + past_key_values_length)
prepare_4d_causal_attention_mask(input_shape, past_key_values_length) ==
    <<input_shape[1], 1, input_shape[2], input_shape[2] + past_key_values_length>>

\* lines 1072-1095: the blocks zipped with past_key_values, from block i
RECURSIVE DecoderLayers(_, _, _, _, _, _, _, _)
DecoderLayers(i, n, hidden_states, past_key_values, attention_mask, position_ids, use_cache, output_attentions) ==
    IF i > n THEN [raised |-> "", check |-> "", trace |-> <<>>, presents |-> <<>>]
    ELSE LET r == ClvpDecoderLayer_forward(hidden_states, past_key_values[i],
                      attention_mask, position_ids, use_cache,
                      output_attentions, i) IN
         IF r.raised # ""
         THEN [raised |-> r.raised, check |-> r.check, trace |-> r.trace,
               presents |-> <<>>]
         ELSE LET rest == DecoderLayers(i + 1, n, hidden_states,
                              past_key_values, attention_mask, position_ids,
                              use_cache, output_attentions)
              IN [raised |-> rest.raised, check |-> rest.check,
                  trace |-> r.trace \o rest.trace,
                  presents |-> IF use_cache = TRUE
                               THEN <<r.outputs[2]>> \o rest.presents
                               ELSE rest.presents]

\* the mutant: with both supplied the decoder goes on with input_ids
ClvpDecoder_check_mut(input_ids, inputs_embeds) ==
    IF ~IsNone(input_ids) THEN "input_ids"
    ELSE IF ~IsNone(inputs_embeds) THEN "inputs_embeds"
    ELSE "neither"

\* lines 1005-1019: which of the two inputs the decoder goes on with
ClvpDecoder_check(input_ids, inputs_embeds) ==
    IF ~IsNone(input_ids) /\ ~IsNone(inputs_embeds) THEN "both"
    ELSE IF ~IsNone(input_ids) THEN "input_ids"
    ELSE IF ~IsNone(inputs_embeds) THEN "inputs_embeds"
    ELSE "neither"

\* ClvpDecoder.forward: [raised, check, trace, past_key_values]
\* `self' is [num_hidden_layers, use_cache, gradient_checkpointing, training]
ClvpDecoder_forward_of(self, input_ids, inputs_embeds, position_ids, past_key_values, use_cache, output_attentions) ==
    LET use_cache0 == IF IsNone(use_cache) THEN self.use_cache
                      ELSE use_cache.val
        chk == ClvpDecoder_check(input_ids, inputs_embeds) IN
    IF chk \in {"both", "neither"}
    THEN [raised |-> "ValueError", check |-> chk, trace |-> <<>>,
          past_key_values |-> NoneVal]
    ELSE
    LET input_shape == IF chk = "input_ids" THEN input_ids.val
                       ELSE inputs_embeds.val
        past_key_values_length ==
            IF IsNone(past_key_values) THEN 0
            ELSE Len(past_key_values.val[1].val.key)
        past == IF IsNone(past_key_values)
                THEN [i \in 1..self.num_hidden_layers |-> NoneVal]
                ELSE past_key_values.val
        pos == IF IsNone(position_ids)
               THEN Some([j \in 1..input_shape[2] |->
                             past_key_values_length + j - 1])
               ELSE position_ids
        t0 == (IF chk = "input_ids" THEN <<"input_embeds_layer">> ELSE <<>>)
                 \o <<"position_embeds_layer">>
        mask4d == Some(prepare_4d_causal_attention_mask(
                           input_shape, past_key_values_length))
        use_cache1 == IF self.gradient_checkpointing /\ self.training
                         /\ use_cache0
                      THEN FALSE ELSE use_cache0
        ls == DecoderLayers(1, Min(self.num_hidden_layers, Len(past)),
                            input_shape, past, mask4d, pos, use_cache1,
                            output_attentions)
    IN IF ls.raised # ""
       THEN [raised |-> ls.raised, check |-> ls.check,
             trace |-> t0 \o ls.trace, past_key_values |-> NoneVal]
       ELSE [raised |-> "", check |-> "",
             trace |-> t0 \o ls.trace \o <<"layer_norm">>,
             past_key_values |-> IF use_cache1 THEN Some(ls.presents)
                                 ELSE NoneVal]

ClvpDecoder_forward ==
    /\ call.op = "ClvpDecoder.forward"
    /\ result = NoResult
    /\ LET r == ClvpDecoder_forward_of(
                    decoder, call.input_ids, call.inputs_embeds,
                    call.position_ids, call.past_key_values, call.use_cache,
                    call.output_attentions) IN
        result' = [op |-> call.op, raised |-> r.raised, check |-> r.check,
                   trace |-> r.trace, past_key_values |-> r.past_key_values]
    /\ UNCHANGED <<call, config, encoder, decoder, model_kwargs,
                   generation_config>>

\* ClvpForCausalLM.forward through ClvpModel.forward: use_cache is resolved
\* against the configuration, the decoder runs, the head follows
ClvpForCausalLM_forward(self, input_ids, inputs_embeds, position_ids, past_key_values, use_cache) ==
    LET use_cache0 == IF IsNone(use_cache) THEN Some(self.use_cache)
                      ELSE use_cache
        d == ClvpDecoder_forward_of(self, input_ids, inputs_embeds,
                 position_ids, past_key_values, use_cache0, FALSE) IN
    IF d.raised # "" THEN d
    ELSE [d EXCEPT !.trace = d.trace \o <<"final_norm", "lm_head">>]

\* ClvpForCausalLM.prepare_inputs_for_generation on the loop's state; the
\* token ids are <<batch, length>>, the conditioning embeddings too
prepare_inputs_for_generation(kw) ==
    LET input_ids_length == kw.input_ids[2]
        has_past == ~IsNone(kw.past_key_values)
        past_length == IF has_past THEN Len(kw.past_key_values.val[1].val.key)
                       ELSE 0
        remove_prefix_length ==
            IF ~has_past THEN 0
            ELSE IF kw.input_ids[2] > past_length THEN past_length
            ELSE kw.input_ids[2] - 1
        input_ids == <<kw.input_ids[1], kw.input_ids[2] - remove_prefix_length>>
        position_ids == IF ~IsNone(kw.conditioning_embeds) /\ has_past
                        THEN Some(<<input_ids_length>>) ELSE NoneVal
    IN [input_ids |-> IF ~IsNone(kw.inputs_embeds) /\ ~has_past THEN NoneVal
                      ELSE Some(input_ids),
        inputs_embeds |-> IF ~IsNone(kw.inputs_embeds) /\ ~has_past
                          THEN kw.inputs_embeds ELSE NoneVal,
        past_key_values |-> kw.past_key_values,
        use_cache |-> kw.use_cache,
        position_ids |-> position_ids]

\* one step of the generation loop: the inputs are prepared, the model runs,
\* the new token is appended and the returned cache is kept for the next step
GenerationStep ==
    /\ model_kwargs.active
    /\ model_kwargs.step < MaxSteps
    /\ \E mi \in {prepare_inputs_for_generation(model_kwargs)} :
       \E r \in {ClvpForCausalLM_forward(decoder, mi.input_ids,
                     mi.inputs_embeds, mi.position_ids, mi.past_key_values,
                     mi.use_cache)} :
        /\ call' = [op |-> "ClvpDecoder.forward",
                    input_ids |-> mi.input_ids,
                    inputs_embeds |-> mi.inputs_embeds,
                    position_ids |-> mi.position_ids,
                    past_key_values |-> mi.past_key_values,
                    use_cache |-> mi.use_cache,
                    output_attentions |-> FALSE]
        /\ result' = [op |-> "ClvpDecoder.forward", raised |-> r.raised,
                      check |-> r.check, trace |-> r.trace,
                      past_key_values |-> r.past_key_values]
        /\ model_kwargs' =
              IF r.raised # "" THEN [model_kwargs EXCEPT !.active = FALSE]
              ELSE [model_kwargs EXCEPT
                       !.step = @ + 1,
                       !.input_ids = <<@[1], @[2] + 1>>,
                       !.past_key_values = r.past_key_values]
    /\ UNCHANGED <<config, encoder, decoder, generation_config>>

\* a decoder as constructed: gradient_checkpointing is False (line 966), in
\* training or in evaluation mode
DecoderObjects ==
    {[num_hidden_layers |-> layers, use_cache |-> cfg_use_cache,
      gradient_checkpointing |-> FALSE, training |-> training] :
        layers \in 1..MaxLayers, cfg_use_cache \in BOOLEAN,
        training \in BOOLEAN}

\* a generation starts from a prompt of token ids, or from conditioning
\* embeddings and the start token (_prepare_model_inputs, lines 1239-1272)
InitDecode ==
    /\ decoder \in DecoderObjects
    /\ \E b \in 1..2, n \in 1..MaxPrompt, use_cache \in Opt(BOOLEAN),
          conditioned \in BOOLEAN :
        model_kwargs =
            [active |-> TRUE, step |-> 0,
             input_ids |-> IF conditioned THEN <<b, 1>> ELSE <<b, n>>,
             conditioning_embeds |-> IF conditioned THEN Some(<<b, n>>)
                                     ELSE NoneVal,
             inputs_embeds |-> IF conditioned THEN Some(<<b, n + 1>>)
                               ELSE NoneVal,
             past_key_values |-> NoneVal,
             use_cache |-> use_cache]
    /\ call = NoCall
    /\ result = NoResult
    /\ config = IdleConfig
    /\ encoder = IdleEncoder
    /\ generation_config = IdleGenerationConfig

NextDecode == GenerationStep

SpecDecode == InitDecode /\ [][NextDecode]_vars

DecoderReturned ==
    /\ call.op = "ClvpDecoder.forward"
    /\ result.op = call.op
    /\ result.raised = ""

\* the use_cache a decoder call runs with
DecoderUseCache ==
    IF IsNone(call.use_cache) THEN decoder.use_cache ELSE call.use_cache.val

\* the positions fed by a decoder call, and the cache length it was given
DecoderFed ==
    IF IsNone(call.input_ids) THEN call.inputs_embeds.val[2]
    ELSE call.input_ids.val[2]

DecoderPastLen(i) ==
    IF IsNone(call.past_key_values) THEN 0
    ELSE Len(call.past_key_values.val[i].val.key)

MaxCondBatch == 2
MaxCondLen == 2
\* text token ids: the pad token (also the text eos token) and a letter
CondTokens == {0, 5}
TextEosTokenId == 0
PadTokenIdDefault == 0

\* lines 668-677: which of the two inputs the conditioning encoder goes on with
ClvpConditioningEncoder_check(input_ids, inputs_embeds) ==
    IF ~IsNone(input_ids) /\ ~IsNone(inputs_embeds) THEN "both"
    ELSE IF ~IsNone(input_ids) THEN "input_ids"
    ELSE IF ~IsNone(inputs_embeds) THEN "inputs_embeds"
    ELSE "neither"

\* the mutant: any two different numbers of texts and audios are rejected
texts_audios_mismatch_mut(N, M) == N # M

\* lines 712-717: neither tiling applies and the batch sizes differ
texts_audios_mismatch(N, M) == ~(N = 1 /\ M # 1) /\ ~(N # 1 /\ M = 1) /\ N # M

\* the mutant: the positions are counted from 1
position_ids_of_mut(mask) ==
    [j \in 1..Len(mask) |-> SeqSum(SubSeq(mask, 1, j))]

\* cumsum(-1) - 1 of one mask row
position_ids_of(mask) ==
    [j \in 1..Len(mask) |-> SeqSum(SubSeq(mask, 1, j)) - 1]

\* ClvpConditioningEncoder.forward: [raised, check, trace, output]
\* input_features is <<number of audios, time>>; input_ids and attention_mask
\* are batches of rows; inputs_embeds is a batch of rows of embedding vectors
ClvpConditioningEncoder_forward_of(self, input_features, input_ids, inputs_embeds, attention_mask) ==
    LET chk == ClvpConditioningEncoder_check(input_ids, inputs_embeds) IN
    IF chk \in {"both", "neither"}
    THEN [raised |-> "ValueError", check |-> chk, trace |-> <<>>,
          output |-> <<>>]
    ELSE IF IsNone(input_ids)
    \* line 686: _pad_extra_bos_eos_tokens pads input_ids, which is None
    THEN [raised |-> "TypeError", check |-> "ops.pad(None)", trace |-> <<>>,
          output |-> <<>>]
    ELSE
    LET mask0 == IF IsNone(attention_mask)
                 THEN Some([i \in 1..Len(input_ids.val) |->
                               Rep(1, Len(input_ids.val[i]))])
                 ELSE attention_mask
        padded == _pad_extra_bos_eos_tokens(input_ids.val, mask0,
                      PadTokenIdDefault, self.bos_token_id, self.eos_token_id,
                      TRUE, TRUE)
        text_embeds ==
            [i \in 1..Len(padded.input_ids) |->
                LET position_ids == position_ids_of(padded.attention_mask.val[i])
                IN [j \in 1..Len(padded.input_ids[i]) |->
                       [src |-> "text_token_embedding",
                        token |-> padded.input_ids[i][j],
                        position |-> position_ids[j]]]]
        mel_spec == [m \in 1..input_features[1] |->
                        <<[src |-> "mel_spec", audio |-> m]>>]
        N == Len(text_embeds)
        M == Len(mel_spec)
        t0 == <<"text_token_embedding", "text_position_embedding", "mel_conv">>
                 \o [k \in 1..(2 * self.num_mel_attn_blocks) |->
                        IF k % 2 = 1 THEN "group_norm" ELSE "mel_attn_block"]
    IN IF texts_audios_mismatch(N, M)
       THEN [raised |-> "ValueError", check |-> "texts_vs_audios",
             trace |-> t0, output |-> <<>>]
       ELSE [raised |-> "", check |-> "", trace |-> t0,
             output |-> [i \in 1..Max(N, M) |->
                            mel_spec[IF M = 1 THEN 1 ELSE i]
                               \o text_embeds[IF N = 1 THEN 1 ELSE i]]]

ClvpConditioningEncoder_forward ==
    /\ call.op = "ClvpConditioningEncoder.forward"
    /\ result = NoResult
    /\ LET r == ClvpConditioningEncoder_forward_of(
                    call.self, call.input_features, call.input_ids,
                    call.inputs_embeds, call.attention_mask) IN
        result' = [op |-> call.op, raised |-> r.raised, check |-> r.check,
                   trace |-> r.trace, output |-> r.output]
    /\ UNCHANGED <<call, config, encoder, decoder, model_kwargs,
                   generation_config>>

(***************************************************************************)
(* The forward passes, each on the inputs a caller may pass.               *)
(***************************************************************************)
CondIds ==
    UNION {SeqsOfLen(SeqsOfLen(CondTokens, n), b) :
              b \in 1..MaxCondBatch, n \in 0..MaxCondLen}

\* embeddings a caller computed itself, one vector per text position
CondEmbeds ==
    {[i \in 1..b |-> [j \in 1..n |-> [src |-> "inputs_embeds", row |-> i,
                                       col |-> j]]] :
        b \in 1..MaxCondBatch, n \in 0..MaxCondLen}

\* the masks a caller has: none, or the tokenizer's for the ids it passes
CondMasks(input_ids) ==
    IF IsNone(input_ids) THEN {NoneVal}
    ELSE {NoneVal,
          Some([i \in 1..Len(input_ids.val) |->
                   [j \in 1..Len(input_ids.val[i]) |->
                       IF input_ids.val[i][j] = PadTokenIdDefault THEN 0
                       ELSE 1]])}

CondCalls ==
    {[op |-> "ClvpConditioningEncoder.forward",
      self |-> [num_mel_attn_blocks |-> blocks, bos_token_id |-> BosTokenId,
                eos_token_id |-> TextEosTokenId],
      input_features |-> <<m, 1>>, input_ids |-> c[1], inputs_embeds |-> emb,
      attention_mask |-> c[2]] :
        blocks \in 1..MaxLayers, m \in 1..(MaxCondBatch + 1),
        emb \in Opt(CondEmbeds),
        c \in UNION {{<<ids, mask>> : mask \in CondMasks(ids)} :
                        ids \in Opt(CondIds)}}

\* caches handed to a decoder call: of every layer, p positions long
DecoderCaches(layers) ==
    {[i \in 1..layers |->
         Some([key |-> projected("k", i, 0, p),
               value |-> projected("v", i, 0, p)])] : p \in 1..MaxPrompt}

DecoderShapes == {<<b, n>> : b \in 1..2, n \in 1..MaxPrompt}

DecoderCalls(layers) ==
    {[op |-> "ClvpDecoder.forward", input_ids |-> ids, inputs_embeds |-> emb,
      position_ids |-> NoneVal, past_key_values |-> past,
      use_cache |-> use_cache, output_attentions |-> att] :
        ids \in Opt(DecoderShapes), emb \in Opt(DecoderShapes),
        past \in Opt(DecoderCaches(layers)), use_cache \in Opt(BOOLEAN),
        att \in BOOLEAN}

EncoderObjects ==
    {[num_hidden_layers |-> layers, rotary_pos_emb |-> rot] :
        layers \in 1..MaxLayers,
        rot \in Opt({ClvpRotaryPositionalEmbedding_init(cfg[1], cfg[2]) :
                        cfg \in RotaryConfigs})}

InitForward ==
    /\ \/ /\ call \in EncoderCalls
          /\ encoder \in EncoderObjects
          /\ decoder = IdleDecoder
       \/ /\ decoder \in DecoderObjects
          /\ call \in DecoderCalls(decoder.num_hidden_layers)
          /\ encoder = IdleEncoder
       \/ /\ call \in CondCalls
          /\ encoder = IdleEncoder
          /\ decoder = IdleDecoder
    /\ result = NoResult
    /\ config = IdleConfig
    /\ model_kwargs = IdleKwargs
    /\ generation_config = IdleGenerationConfig

NextForward ==
    \/ ClvpEncoder_forward
    \/ ClvpDecoder_forward
    \/ ClvpConditioningEncoder_forward

SpecForward == InitForward /\ [][NextForward]_vars

ForwardOps ==
    {"ClvpEncoder.forward", "ClvpDecoder.forward",
     "ClvpConditioningEncoder.forward"}

ForwardDone == call.op \in ForwardOps /\ result.op = call.op

\* the events of a forward pass that compute an embedding or run a layer
Computations(trace) == {trace[k] : k \in 1..Len(trace)}

\* C2: ClvpEncoder.forward, ClvpDecoder.forward and
\* ClvpConditioningEncoder.forward each raise ValueError when both input_ids
\* and inputs_embeds are supplied and when neither is; the check passes
\* exactly when one of the two is supplied, and it is made before any
\* embedding or layer computation.
C2_IdsXorEmbeds ==
    ForwardDone =>
        LET one == IsNone(call.input_ids) # IsNone(call.inputs_embeds)
            failed == result.raised = "ValueError"
                         /\ result.check \in {"both", "neither"} IN
        /\ failed <=> ~one
        /\ (~IsNone(call.input_ids) /\ ~IsNone(call.inputs_embeds)) =>
              result.check = "both"
        /\ (IsNone(call.input_ids) /\ IsNone(call.inputs_embeds)) =>
              result.check = "neither"
        /\ failed => Computations(result.trace) = {}

\* a decoder call that was given neither input and raised before computing
C2_Witness_DecoderNeither ==
    /\ call.op = "ClvpDecoder.forward"
    /\ result.op = call.op
    /\ IsNone(call.input_ids)
    /\ IsNone(call.inputs_embeds)
    /\ result.raised = "ValueError"
    /\ result.trace = <<>>

CondDoneWithIds ==
    /\ call.op = "ClvpConditioningEncoder.forward"
    /\ result.op = call.op
    /\ ~IsNone(call.input_ids)
    /\ IsNone(call.inputs_embeds)

\* C13: ClvpConditioningEncoder.forward on N texts and M audios raises
\* ValueError exactly when N # M and neither N nor M is 1; otherwise it
\* returns a tensor of batch size max(N, M) and sequence length
\* 1 + (text length + 2): one mel vector, then the text positions extended
\* by bos and eos.
C13_BroadcastOrReject ==
    CondDoneWithIds =>
        LET N == Len(call.input_ids.val)
            M == call.input_features[1]
            L == Len(call.input_ids.val[1]) IN
        /\ (result.raised = "ValueError") <=> (N # M /\ N # 1 /\ M # 1)
        /\ (result.raised # "ValueError") =>
              /\ result.raised = ""
              /\ Len(result.output) = Max(N, M)
              /\ \A i \in 1..Len(result.output) :
                    /\ Len(result.output[i]) = 1 + (L + 2)
                    /\ result.output[i][1].src = "mel_spec"
                    /\ \A j \in 2..Len(result.output[i]) :
                          result.output[i][j].src = "text_token_embedding"

\* one text tiled over three audios
C13_Witness_OneTextThreeAudios ==
    /\ CondDoneWithIds
    /\ Len(call.input_ids.val) = 1
    /\ Len(call.input_ids.val[1]) = 2
    /\ call.input_features[1] = 3
    /\ result.raised = ""
    /\ Len(result.output) = 3
    /\ result.output[3][2] = result.output[1][2]

\* C5: conditioning_encoder_inputs_embeds can be used in place of input_ids:
\* ClvpConditioningEncoder.forward called with inputs_embeds set and input_ids
\* None completes without error, and the text embeddings concatenated into
\* its output are computed from the supplied inputs_embeds, not from a
\* token-embedding lookup of input_ids.
C5_EmbedsInPlaceOfIds ==
    (/\ call.op = "ClvpConditioningEncoder.forward"
     /\ result.op = call.op
     /\ IsNone(call.input_ids)
     /\ ~IsNone(call.inputs_embeds)
     /\ call.input_features[1] = Len(call.inputs_embeds.val)) =>
        /\ result.raised = ""
        /\ \A i \in 1..Len(result.output) :
              \A j \in 2..Len(result.output[i]) :
                  result.output[i][j].src = "inputs_embeds"

(***************************************************************************)
(* clvp/modeling_clvp.py : ClvpSelfAttention.forward, called directly      *)
(***************************************************************************)
\* the 4-d masks a caller may pass: (bsz, 1, tgt_len, src_len)
AttentionMasks ==
    {<<b, 1, t, s>> : b \in 1..2, t \in 1..MaxRotarySeq,
                      s \in 1..(MaxRotarySeq + MaxPrompt)}

AttentionCalls ==
    {[op |-> "ClvpSelfAttention.forward", hidden_states |-> <<b, n>>,
      rotary_pos_emb |-> rot, attention_mask |-> mask,
      position_ids |-> IF pos THEN Some([j \in 1..n |-> j - 1]) ELSE NoneVal,
      past_key_value |-> past, use_cache |-> use_cache,
      output_attentions |-> att] :
        b \in 1..2, n \in 1..MaxRotarySeq,
        rot \in Opt({"rotary_pos_emb"}), mask \in Opt(AttentionMasks),
        pos \in BOOLEAN,
        past \in Opt({[key |-> projected("k", 1, 0, p),
                       value |-> projected("v", 1, 0, p)] : p \in 1..MaxPrompt}),
        use_cache \in BOOLEAN, att \in BOOLEAN}

ClvpSelfAttention_call ==
    /\ call.op = "ClvpSelfAttention.forward"
    /\ result = NoResult
    /\ \E r \in {ClvpSelfAttention_forward(call.hidden_states,
                    call.rotary_pos_emb, call.attention_mask,
                    call.position_ids, call.past_key_value, call.use_cache,
                    call.output_attentions, 1)} :
        result' = [op |-> call.op, raised |-> r.raised, check |-> r.check,
                   trace |-> r.trace, present |-> r.present,
                   attn_weights |-> r.attn_weights]
    /\ UNCHANGED <<call, config, encoder, decoder, model_kwargs,
                   generation_config>>

InitAttention ==
    /\ call \in AttentionCalls
    /\ result = NoResult
    /\ config = IdleConfig
    /\ encoder = IdleEncoder
    /\ decoder = IdleDecoder
    /\ model_kwargs = IdleKwargs
    /\ generation_config = IdleGenerationConfig

NextAttention == ClvpSelfAttention_call

SpecAttention == InitAttention /\ [][NextAttention]_vars

AttentionDone ==
    call.op = "ClvpSelfAttention.forward" /\ result.op = call.op

\* (batch, 1, target_length, source_length) of a call, the source length
\* counting the cached past positions
AttentionExpectedMask ==
    <<call.hidden_states[1], 1, call.hidden_states[2],
      call.hidden_states[2]
         + (IF IsNone(call.past_key_value) THEN 0
            ELSE Len(call.past_key_value.val.key))>>

\* C14: ClvpSelfAttention.forward raises ValueError when rotary_pos_emb is
\* given and position_ids is None, before any projection is computed, and
\* raises ValueError when an attention_mask is given whose shape differs from
\* (batch, 1, target_length, source_length), the source length including the
\* cached past length; with position_ids present and a correctly shaped or
\* absent mask neither error is raised.
C14_AttentionValueErrors ==
    AttentionDone =>
        LET no_pos == ~IsNone(call.rotary_pos_emb) /\ IsNone(call.position_ids)
            bad_mask == /\ ~IsNone(call.attention_mask)
                        /\ call.attention_mask.val # AttentionExpectedMask IN
        /\ no_pos => /\ result.raised = "ValueError"
                     /\ result.check = "position_ids"
                     /\ result.trace = <<>>
        /\ (bad_mask /\ ~no_pos) => /\ result.raised = "ValueError"
                                    /\ result.check = "attention_mask"
        /\ (~IsNone(call.position_ids) /\ ~bad_mask) => result.raised = ""
        /\ (result.raised = "ValueError") <=> (no_pos \/ bad_mask)

\* a mask shaped for the new positions only, passed along with a cache
C14_Witness_MaskIgnoresPast ==
    /\ AttentionDone
    /\ ~IsNone(call.past_key_value)
    /\ ~IsNone(call.attention_mask)
    /\ call.attention_mask.val
          = <<call.hidden_states[1], 1, call.hidden_states[2],
              call.hidden_states[2]>>
    /\ result.raised = "ValueError"
    /\ result.check = "attention_mask"

(***************************************************************************)
(* clvp/modeling_clvp.py : ClvpModelForConditionalGeneration.generate      *)
(***************************************************************************)
MaxGenBatch == 2
MaxCalls == 2
MaxGenLen == 2
\* config.decoder_config.max_text_tokens: small tables, so that texts both
\* within and beyond max_text_tokens - 3 occur
TextTokenLimits == 3..(MaxGenLen + 2)
\* a pad_to_max_mel_tokens longer than what is generated
PadToMaxMelTokens == 6
DefaultFixingCodes == <<83, 45, 45, 248>>
SpeechBos == 8192

\* the mutant: a text of exactly max_text_tokens - 3 tokens is rejected too
generate_too_long_mut(sequence_length, max_text_tokens) ==
    sequence_length >= max_text_tokens - 3

\* line 1826
generate_too_long(sequence_length, max_text_tokens) ==
    sequence_length > max_text_tokens - 3

\* lines 1832-1837: the configuration the call works with is a deep copy of
\* the one passed (of the model's own when none is passed), updated with the
\* keyword arguments that name its attributes
generate_config_copy(self_generation_config, given_generation_config, kwargs) ==
    LET base == IF IsNone(given_generation_config) THEN self_generation_config
                ELSE given_generation_config.val IN
    IF IsNone(kwargs.return_dict_in_generate) THEN base
    ELSE [base EXCEPT
             !.return_dict_in_generate = kwargs.return_dict_in_generate.val]

\* the mutant: the keyword arguments update the model's own configuration
generate_config_kept_mut(self_generation_config, given_generation_config, gc) ==
    IF IsNone(given_generation_config) THEN gc ELSE self_generation_config

\* line 1835: update and validate act on the deep copy, so the model's own
\* configuration is after the call what it was before
generate_config_kept(self_generation_config, given_generation_config, gc) ==
    self_generation_config

\* what ClvpForCausalLM.generate returns: a ModelOutput holding the sequences
\* with return_dict_in_generate, the bare tensor of sequences without
speech_decoder_generate(sequences, return_dict_in_generate) ==
    IF return_dict_in_generate
    THEN [kind |-> "ModelOutput", sequences |-> sequences]
    ELSE [kind |-> "Tensor", sequences |-> sequences]

\* lines 1868-1872: ops.pad(speech_ids, (0, padding_needed), value=eos)
pad_to_max(speech_ids, pad_to_max_mel_tokens, eos_token_id) ==
    IF IsNone(pad_to_max_mel_tokens) THEN speech_ids
    ELSE [i \in 1..Len(speech_ids) |->
             LET padding_needed == pad_to_max_mel_tokens.val - Len(speech_ids[i])
             IN IF padding_needed >= 0
                THEN speech_ids[i] \o Rep(eos_token_id, padding_needed)
                ELSE SubSeq(speech_ids[i], 1, pad_to_max_mel_tokens.val)]

\* the sequences the speech decoder may generate for a batch: the start
\* token, then mel tokens, ended or not by the eos token
GeneratedRows ==
    {<<SpeechBos, 5, 5, 5>>, <<SpeechBos, 5, 5, SpeechEos>>,
     <<SpeechBos, 5, SpeechEos, SpeechEos>>}

GeneratedIds(batch) == {[i \in 1..batch |-> row] : row \in GeneratedRows}

ShapeOf(rows) == <<Len(rows), Len(rows[1])>>

GenerateEnds(raised, check, trace, conditioning_embeds, output) ==
    result' = [op |-> call.op, raised |-> raised, check |-> check,
               trace |-> trace, conditioning_embeds |-> conditioning_embeds,
               output |-> output]

\* lines 1874-1932, from the speech ids the decoder returned
generate_finish(gc, speech_ids0, text_ids, text_mask, cond, trace) ==
    \E fixed \in {fix_speech_decoder_output(speech_ids0, SpeechEos,
                                            DefaultFixingCodes)} :
    IF fixed.raised # ""
    THEN /\ GenerateEnds(fixed.raised, "fix_speech_decoder_output", trace,
                         cond, NoneVal)
         /\ UNCHANGED encoder
    ELSE
    \E speech_outputs \in {ClvpEncoder_forward_of(encoder.speech_encoder_model,
                               Some(ShapeOf(fixed.speech_ids)), NoneVal,
                               NoneVal, NoneVal, FALSE)},
       text_outputs \in {ClvpEncoder_forward_of(encoder.text_encoder_model,
                             Some(ShapeOf(text_ids)), NoneVal,
                             IF IsNone(text_mask) THEN NoneVal
                             ELSE Some(ShapeOf(text_mask.val)),
                             NoneVal, FALSE)} :
    /\ encoder' = [speech_encoder_model |->
                      [encoder.speech_encoder_model EXCEPT
                          !.rotary_pos_emb = speech_outputs.rotary],
                   text_encoder_model |->
                      IF speech_outputs.raised # ""
                      THEN encoder.text_encoder_model
                      ELSE [encoder.text_encoder_model EXCEPT
                               !.rotary_pos_emb = text_outputs.rotary]]
    /\ IF speech_outputs.raised # ""
       THEN GenerateEnds(speech_outputs.raised, speech_outputs.check,
                         trace \o <<"fix_speech_decoder_output",
                                    "speech_encoder_model">>, cond, NoneVal)
       ELSE IF text_outputs.raised # ""
       THEN GenerateEnds(text_outputs.raised, text_outputs.check,
                         trace \o <<"fix_speech_decoder_output",
                                    "speech_encoder_model",
                                    "text_encoder_model">>, cond, NoneVal)
       ELSE GenerateEnds("", "",
                trace \o <<"fix_speech_decoder_output", "speech_encoder_model",
                           "text_encoder_model">>,
                cond,
                Some([kind |-> IF gc.return_dict_in_generate THEN "ClvpOutput"
                               ELSE "tuple",
                      speech_ids |-> fixed.speech_ids,
                      logits_per_text |-> <<Len(text_ids),
                                            Len(fixed.speech_ids)>>,
                      logits_per_speech |-> <<Len(fixed.speech_ids),
                                              Len(text_ids)>>]))

\* ClvpModelForConditionalGeneration.generate
ClvpModelForConditionalGeneration_generate ==
    /\ call.op = "ClvpModelForConditionalGeneration.generate"
    /\ result = NoResult
    /\ UNCHANGED <<call, config, decoder, model_kwargs>>
    /\ IF generate_too_long(Len(call.input_ids[1]), call.self.max_text_tokens)
       THEN /\ GenerateEnds("ValueError", "max_text_tokens", <<>>, NoneVal,
                            NoneVal)
            /\ UNCHANGED <<encoder, generation_config>>
       ELSE
       \E gc \in {generate_config_copy(generation_config,
                      call.generation_config, call.kwargs)},
          padded \in {_pad_extra_bos_eos_tokens(call.input_ids,
                          call.attention_mask, PadTokenIdDefault, BosTokenId,
                          TextEosTokenId, FALSE, TRUE)} :
       /\ generation_config' = generate_config_kept(generation_config,
                                   call.generation_config, gc)
       /\ \E conditioning_embeds \in {ClvpConditioningEncoder_forward_of(
                                         call.self.conditioning_encoder,
                                         call.input_features,
                                         Some(padded.input_ids), NoneVal,
                                         padded.attention_mask)} :
          LET t1 == <<"deepcopy", "update", "validate", "_validate_model_kwargs",
                      "_pad_extra_bos_eos_tokens", "conditioning_encoder">> IN
          IF conditioning_embeds.raised # ""
          THEN /\ GenerateEnds(conditioning_embeds.raised,
                               conditioning_embeds.check, t1, NoneVal,
                               NoneVal)
               /\ UNCHANGED encoder
          ELSE
          \E sequences \in GeneratedIds(Len(conditioning_embeds.output)) :
          \E decoder_outputs \in {speech_decoder_generate(sequences,
                                      gc.return_dict_in_generate)} :
          LET t2 == t1 \o <<"speech_decoder_model.generate">> IN
          \* lines 1863-1864: speech_ids is bound only for a ModelOutput
          IF decoder_outputs.kind # "ModelOutput"
          THEN /\ GenerateEnds("UnboundLocalError", "speech_ids", t2,
                               Some(conditioning_embeds.output), NoneVal)
               /\ UNCHANGED encoder
          ELSE generate_finish(gc,
                   pad_to_max(decoder_outputs.sequences,
                              call.pad_to_max_mel_tokens,
                              generation_config.eos_token_id),
                   padded.input_ids, padded.attention_mask,
                   Some(conditioning_embeds.output), t2)

GenerateIds ==
    UNION {SeqsOfLen(SeqsOfLen(CondTokens, n), b) :
              b \in 1..MaxGenBatch, n \in 0..MaxGenLen}

GenerationConfigs ==
    {[return_dict_in_generate |-> b, eos_token_id |-> SpeechEos] :
        b \in BOOLEAN}

GenerateCalls ==
    {[op |-> "ClvpModelForConditionalGeneration.generate",
      self |-> [max_text_tokens |-> limit,
                conditioning_encoder |->
                    [num_mel_attn_blocks |-> 1, bos_token_id |-> BosTokenId,
                     eos_token_id |-> TextEosTokenId]],
      input_ids |-> c[1], attention_mask |-> c[2],
      input_features |-> <<m, 1>>,
      generation_config |-> gc,
      kwargs |-> [return_dict_in_generate |-> kw],
      pad_to_max_mel_tokens |-> padto,
      nth |-> 1, earlier_kwargs |-> [return_dict_in_generate |-> NoneVal]] :
        limit \in TextTokenLimits, m \in 1..(MaxGenBatch + 1),
        gc \in Opt(GenerationConfigs), kw \in Opt(BOOLEAN),
        padto \in Opt({PadToMaxMelTokens}),
        c \in UNION {{<<ids, mask>> : mask \in CondMasks(Some(ids))} :
                        ids \in GenerateIds}}

InitGenerate ==
    /\ call \in GenerateCalls
    /\ generation_config \in GenerationConfigs
    /\ \E layers \in 1..MaxLayers :
        encoder = [text_encoder_model |->
                      [num_hidden_layers |-> layers,
                       rotary_pos_emb |->
                          Some(ClvpRotaryPositionalEmbedding_init(768, 12))],
                   speech_encoder_model |->
                      [num_hidden_layers |-> layers,
                       rotary_pos_emb |->
                          Some(ClvpRotaryPositionalEmbedding_init(768, 12))]]
    /\ result = NoResult
    /\ config = IdleConfig
    /\ decoder = IdleDecoder
    /\ model_kwargs = IdleKwargs

\* the caller makes a further call on the same inputs, with keyword
\* arguments of its choice
GenerateNextCall ==
    /\ call.op = "ClvpModelForConditionalGeneration.generate"
    /\ result.op = call.op
    /\ call.nth < MaxCalls
    /\ \E kw \in Opt(BOOLEAN) :
        call' = [call EXCEPT !.kwargs = [return_dict_in_generate |-> kw],
                             !.nth = @ + 1,
                             !.earlier_kwargs = call.kwargs]
    /\ result' = NoResult
    /\ UNCHANGED <<config, encoder, decoder, model_kwargs,
                   generation_config>>

NextGenerate ==
    \/ ClvpModelForConditionalGeneration_generate
    \/ GenerateNextCall

SpecGenerate == InitGenerate /\ [][NextGenerate]_vars

GenerateDone ==
    /\ call.op = "ClvpModelForConditionalGeneration.generate"
    /\ result.op = call.op

GenerateTextLength == Len(call.input_ids[1])

\* C3 (as stated): generate raises ValueError if and only if the last
\* dimension of input_ids is longer than max_text_tokens - 3, and it raises
\* before the generation config is copied or updated, before any token is
\* padded and before any sub-model is invoked.
C3_ValueErrorIffTooLong ==
    GenerateDone =>
        /\ (result.raised = "ValueError") <=>
              (GenerateTextLength > call.self.max_text_tokens - 3)
        /\ (result.raised = "ValueError") => result.trace = <<>>

\* C3 (amended): generate raises the ValueError of its sequence-length check
\* if and only if the last dimension of input_ids is longer than
\* max_text_tokens - 3, and then before the generation config is copied or
\* updated, before any token is padded and before any sub-model is invoked;
\* when the check passes, the only other ValueError is the conditioning
\* encoder's, for numbers of texts and audios that differ and are both not 1.
C3_LengthCheckIffTooLong ==
    GenerateDone =>
        LET too_long == GenerateTextLength > call.self.max_text_tokens - 3
            N == Len(call.input_ids)
            M == call.input_features[1] IN
        /\ (result.raised = "ValueError" /\ result.check = "max_text_tokens")
              <=> too_long
        /\ too_long => result.trace = <<>>
        /\ (result.raised = "ValueError" /\ ~too_long) <=>
              (~too_long /\ N # 1 /\ M # 1 /\ N # M)
        /\ (result.raised = "ValueError" /\ ~too_long) =>
              result.check = "texts_vs_audios"

\* a text one token beyond the limit, rejected before anything else is done
C3_Witness_TooLong ==
    /\ GenerateDone
    /\ GenerateTextLength = call.self.max_text_tokens - 2
    /\ result.raised = "ValueError"
    /\ result.check = "max_text_tokens"
    /\ result.trace = <<>>

\* the return_dict_in_generate the call works with
GenerateReturnDict ==
    generate_config_copy(generation_config, call.generation_config,
                         call.kwargs).return_dict_in_generate

\* C4: for a text within the length limit and matching numbers of texts and
\* audios, generate completes without an error and returns a ClvpOutput when
\* return_dict_in_generate is true and a tuple headed by speech_ids when it
\* is false, speech_ids being defined from the decoder's generate result.
C4_ReturnsOutputOrTuple ==
    (/\ GenerateDone
     /\ GenerateTextLength <= call.self.max_text_tokens - 3
     /\ \/ Len(call.input_ids) = call.input_features[1]
        \/ Len(call.input_ids) = 1
        \/ call.input_features[1] = 1) =>
        /\ result.raised = ""
        /\ ~IsNone(result.output)
        /\ result.output.val.kind =
              (IF GenerateReturnDict THEN "ClvpOutput" ELSE "tuple")
        /\ Len(result.output.val.speech_ids)
              = Max(Len(call.input_ids), call.input_features[1])

\* C17: whenever the sequence-length check of generate passes, the text token
\* sequence that reaches the conditioning encoder's position embedding has
\* length input length + 3, and every position id cumsum(attention_mask) - 1
\* lies in [0, max_text_tokens - 1], inside the text_position_embedding table.
C17_TextPositionsInTable ==
    (/\ GenerateDone
     /\ GenerateTextLength <= call.self.max_text_tokens - 3
     /\ ~IsNone(result.conditioning_embeds)) =>
        \A i \in 1..Len(result.conditioning_embeds.val) :
            LET row == result.conditioning_embeds.val[i] IN
            /\ Len(row) = 1 + (GenerateTextLength + 3)
            /\ \A j \in 2..Len(row) :
                  /\ row[j].src = "text_token_embedding"
                  /\ row[j].position >= 0
                  /\ row[j].position <= call.self.max_text_tokens - 1

\* a text of exactly max_text_tokens - 3 tokens, none of them masked: its
\* last position is the last row of the table
C17_Witness_LastTableRow ==
    /\ GenerateDone
    /\ GenerateTextLength = call.self.max_text_tokens - 3
    /\ GenerateTextLength > 0
    /\ ~IsNone(result.conditioning_embeds)
    /\ LET row == result.conditioning_embeds.val[1] IN
          row[Len(row)].position = call.self.max_text_tokens - 1

\* C19: generate does not modify the generation config it is given nor the
\* model's own generation_config: keyword overrides passed to one call are
\* applied to a deep copy and are not visible in any later call, which works
\* with what its own arguments and the unchanged configurations say.
C19_GenerationConfigKept ==
    /\ [][(call.op = "ClvpModelForConditionalGeneration.generate"
              /\ result = NoResult /\ result'.op = call.op) =>
             /\ generation_config' = generation_config
             /\ call'.generation_config = call.generation_config]_vars
    /\ []((GenerateDone /\ ~IsNone(result.conditioning_embeds)) =>
             ((result.raised = "UnboundLocalError") <=>
                 ~(IF ~IsNone(call.kwargs.return_dict_in_generate)
                   THEN call.kwargs.return_dict_in_generate.val
                   ELSE IF ~IsNone(call.generation_config)
                   THEN call.generation_config.val.return_dict_in_generate
                   ELSE generation_config.return_dict_in_generate)))

\* a second call without override, after a call that overrode the model's
\* return_dict_in_generate = False with True: it works with False again
C19_Witness_OverrideForgotten ==
    /\ GenerateDone
    /\ call.nth = 2
    /\ call.earlier_kwargs.return_dict_in_generate = Some(TRUE)
    /\ IsNone(call.kwargs.return_dict_in_generate)
    /\ IsNone(call.generation_config)
    /\ ~generation_config.return_dict_in_generate
    /\ result.raised = "UnboundLocalError"

(***************************************************************************)
(* musicgen_melody/feature_extraction_musicgen_melody.py :                 *)
(*   MusicgenMelodyFeatureExtractor                                        *)
(***************************************************************************)
MaxAudioLen == 9
NumChroma == 2
MaxEnergy == 2

\* extractors as constructed: n_fft, hop_length and n_samples scaled down
\* (the defaults are 16384, 4096 and 960000), with either default for
\* return_attention_mask
FeatureExtractors ==
    {[n_fft |-> c[1], hop_length |-> c[2], n_samples |-> MaxAudioLen - 1,
      return_attention_mask |-> ram] :
        c \in {<<4, 1>>, <<4, 2>>, <<8, 2>>}, ram \in BOOLEAN}

\* Spectrogram(n_fft, win_length=n_fft, hop_length, center=True, pad=0): the
\* number of frames of a waveform of `length' >= n_fft samples
spectrogram_frames(length, hop_length) == 1 + (length \div hop_length)

\* lines 142-146: the length of the waveform handed to the spectrogram
fbank_padded_length(wav_length, n_fft) ==
    IF wav_length < n_fft
    THEN LET pad == n_fft - wav_length
             rest == IF pad % 2 = 0 THEN 0 ELSE 1
         IN (pad \div 2) + wav_length + ((pad \div 2) + rest)
    ELSE wav_length

\* nn.functional.normalize(p=inf, dim=chroma, eps) on one frame of
\* non-negative energies: every bin over max(max energy, eps), as a fraction
normalize(frame) ==
    LET m == CHOOSE v \in {frame[c] : c \in 1..Len(frame)} :
                 \A c \in 1..Len(frame) : frame[c] <= v IN
    [c \in 1..Len(frame) |-> [num |-> frame[c],
                              den |-> IF m > 0 THEN m ELSE 1]]

\* argmax(-1) of one normalised frame: the first bin holding the maximum
chroma_argmax(norm) ==
    CHOOSE c \in 1..Len(norm) :
        /\ \A d \in 1..Len(norm) : norm[d].num * norm[c].den
                                      <= norm[c].num * norm[d].den
        /\ \A d \in 1..(c - 1) : norm[d].num * norm[c].den
                                    < norm[c].num * norm[d].den

\* the mutant: the frame is not zeroed before the 1 is scattered
chroma_scatter_mut(norm, idx) ==
    [c \in 1..Len(norm) |-> IF c = idx THEN 1 ELSE norm[c].num]

\* lines 162-163: norm_chroma[:] = 0, then a 1 scattered at idx
chroma_scatter(norm, idx) ==
    [c \in 1..Len(norm) |-> IF c = idx THEN 1 ELSE 0]

\* the chroma energies einsum(chroma_filters, spec) of frame t: the pattern's
\* frames, repeated
raw_chroma(pattern, t) == pattern[((t - 1) % Len(pattern)) + 1]

\* _ms_extract_fbank_features on a waveform of shape <<batch, length>>:
\* (batch, time, chroma)
_ms_extract_fbank_features(self, waveform, pattern) ==
    LET frames == spectrogram_frames(
                      fbank_padded_length(waveform[2], self.n_fft),
                      self.hop_length) IN
    [b \in 1..waveform[1] |->
        [t \in 1..frames |->
            LET norm_chroma == normalize(raw_chroma(pattern, t))
            IN chroma_scatter(norm_chroma, chroma_argmax(norm_chroma))]]

\* SequenceFeatureExtractor.pad with padding=True: audios longer than
\* max_length are truncated, all are padded to the longest; the mask is
\* returned when asked for (by the call, else by the extractor's default)
feature_pad(self, lengths, max_length, truncation, return_attention_mask) ==
    LET cut == [b \in 1..Len(lengths) |->
                   IF truncation THEN Min(lengths[b], max_length)
                   ELSE lengths[b]]
        longest == CHOOSE v \in {cut[b] : b \in 1..Len(cut)} :
                       \A b \in 1..Len(cut) : cut[b] <= v
        wanted == IF IsNone(return_attention_mask)
                  THEN self.return_attention_mask
                  ELSE return_attention_mask.val IN
    [input_features |-> <<Len(lengths), longest>>,
     attention_mask |->
        IF wanted
        THEN Some([b \in 1..Len(cut) |->
                      [j \in 1..longest |-> IF j <= cut[b] THEN 1 ELSE 0]])
        ELSE NoneVal]

\* line 334: attention_mask[:, ::hop_length] on one row
mask_rescale(mask, hop_length) ==
    [k \in 1..((Len(mask) + hop_length - 1) \div hop_length) |->
        mask[(k - 1) * hop_length + 1]]

\* MusicgenMelodyFeatureExtractor.__call__ on a batch of mono audios
MusicgenMelodyFeatureExtractor_call_of(self, lengths, max_length, truncation, return_attention_mask, pattern) ==
    LET padded_inputs ==
            feature_pad(self, lengths,
                        IF IsNone(max_length) THEN self.n_samples
                        ELSE max_length.val,
                        truncation, return_attention_mask)
        rescale == ~IsNone(return_attention_mask)
                      /\ return_attention_mask.val IN
    [input_features |->
        _ms_extract_fbank_features(self, padded_inputs.input_features,
                                   pattern),
     attention_mask |->
        IF rescale
        THEN Some([b \in 1..Len(lengths) |->
                      mask_rescale(padded_inputs.attention_mask.val[b],
                                   self.hop_length)])
        ELSE padded_inputs.attention_mask]

MusicgenMelodyFeatureExtractor_call ==
    /\ call.op = "MusicgenMelodyFeatureExtractor.__call__"
    /\ result = NoResult
    /\ \E r \in {MusicgenMelodyFeatureExtractor_call_of(call.self,
                    call.audio, call.max_length, call.truncation,
                    call.return_attention_mask, call.pattern)} :
        result' = [op |-> call.op, raised |-> "",
                   input_features |-> r.input_features,
                   attention_mask |-> r.attention_mask]
    /\ UNCHANGED <<call, config, encoder, decoder, model_kwargs,
                   generation_config>>

ms_extract_fbank_features_call ==
    /\ call.op = "_ms_extract_fbank_features"
    /\ result = NoResult
    /\ \E r \in {_ms_extract_fbank_features(call.self, call.waveform,
                                            call.pattern)} :
        result' = [op |-> call.op, raised |-> "", input_features |-> r]
    /\ UNCHANGED <<call, config, encoder, decoder, model_kwargs,
                   generation_config>>

\* chroma energies of one frame, and what a spectrogram may hold: one frame
\* repeated, or two alternating
ChromaFrames == [1..NumChroma -> 0..MaxEnergy]
ChromaPatterns == SeqsOfLen(ChromaFrames, 1) \cup SeqsOfLen(ChromaFrames, 2)

\* the lengths of the audios of a batch of one or two
AudioBatches ==
    {<<n>> : n \in 1..MaxAudioLen}
       \cup {<<n, m>> : n \in 1..MaxAudioLen, m \in {1, MaxAudioLen}}

FeatureCalls ==
    {[op |-> "MusicgenMelodyFeatureExtractor.__call__", self |-> self,
      audio |-> audio, max_length |-> NoneVal, truncation |-> TRUE,
      return_attention_mask |-> ram, pattern |-> pattern] :
        self \in FeatureExtractors, audio \in AudioBatches,
        ram \in Opt(BOOLEAN), pattern \in SeqsOfLen(ChromaFrames, 1)}

FbankCalls ==
    {[op |-> "_ms_extract_fbank_features", self |-> self,
      waveform |-> <<b, n>>, pattern |-> pattern] :
        self \in FeatureExtractors, b \in 1..2, n \in 1..MaxAudioLen,
        pattern \in ChromaPatterns}

InitFeature ==
    /\ call \in FeatureCalls \cup FbankCalls
    /\ result = NoResult
    /\ config = IdleConfig
    /\ encoder = IdleEncoder
    /\ decoder = IdleDecoder
    /\ model_kwargs = IdleKwargs
    /\ generation_config = IdleGenerationConfig

NextFeature ==
    \/ MusicgenMelodyFeatureExtractor_call
    \/ ms_extract_fbank_features_call

SpecFeature == InitFeature /\ [][NextFeature]_vars

FeatureCallDone ==
    /\ call.op = "MusicgenMelodyFeatureExtractor.__call__"
    /\ result.op = call.op

\* C15: __call__ with return_attention_mask=True returns an attention_mask
\* with as many time steps as the returned input_features has spectrogram
\* frames, for every padded audio length.
C15_MaskHasFrameCount ==
    (/\ FeatureCallDone
     /\ call.return_attention_mask = Some(TRUE)) =>
        /\ ~IsNone(result.attention_mask)
        /\ \A b \in 1..Len(call.audio) :
              Len(result.attention_mask.val[b])
                 = Len(result.input_features[b])

FbankDone ==
    call.op = "_ms_extract_fbank_features" /\ result.op = call.op

\* C16: the chroma features _ms_extract_fbank_features returns are one-hot
\* along the chroma dimension: in every frame of every batch element exactly
\* one bin is 1, a bin of maximum energy, and every other bin is 0.
C16_ChromaOneHot ==
    FbankDone =>
        \A b \in 1..Len(result.input_features) :
            \A t \in 1..Len(result.input_features[b]) :
                LET frame == result.input_features[b][t]
                    energy == raw_chroma(call.pattern, t) IN
                /\ Len(frame) = NumChroma
                /\ \E c \in 1..NumChroma :
                      /\ frame[c] = 1
                      /\ \A d \in 1..NumChroma : energy[d] <= energy[c]
                      /\ \A d \in (1..NumChroma) \ {c} : frame[d] = 0

\* a spectrogram whose frames alternate between two different loudest bins
C16_Witness_AlternatingBins ==
    /\ FbankDone
    /\ Len(result.input_features[1]) >= 2
    /\ result.input_features[1][1] = <<1, 0>>
    /\ result.input_features[1][2] = <<0, 1>>
    /\ raw_chroma(call.pattern, 2)[1] > 0

====
